---------------------------- MODULE Spec2Model ----------------------------
(***************************************************************************)
(* A model of the client-side password vault: the crypto helpers of        *)
(* utils/crypto.ts, the localStorage wrappers of utils/storage.ts, the     *)
(* AuthGate and VaultPage handlers, and the Auth/Session providers.        *)
(*                                                                         *)
(* Strings are sequences of UTF-16 code units, byte arrays are sequences   *)
(* of 0..255, base64 text is a sequence of sextets 0..63 with 64 for '='   *)
(* and 65 for any character outside the alphabet.  PBKDF2 and AES-GCM are  *)
(* ideal: a key is the pair (password bytes, salt bytes), a ciphertext is  *)
(* the term (key, iv, plaintext bytes) and it opens only under the same    *)
(* key and iv.  The random generators never repeat a value.                *)
(***************************************************************************)
EXTENDS Integers, Sequences, FiniteSets, TLC

(***************************************************************************)
(* Program constants (constants/config.ts).                                *)
(***************************************************************************)
SESSION_DURATION == 300000
WARNING_TIME == 60000
ACTIVITY_RESET_THROTTLE == 1000
IV_LENGTH == 12
SALT_LENGTH == 16
MIN_PASSWORD_LENGTH == 8
MAX_PASSWORD_LENGTH == 128

(***************************************************************************)
(* Bounds of the model.                                                    *)
(***************************************************************************)
MaxRecords == 2
MaxSalts == 2
MaxIV == 2
MaxPending == 1
MaxFaults == 1
MaxActivity == 2
MaxTime == 302000

(***************************************************************************)
(* JavaScript values.                                                      *)
(***************************************************************************)
\* undefined / null for a string-valued slot (no code unit is negative)
Undefined == <<-1>>

\* the truthiness of a string-valued slot: undefined, null and '' are falsy
Truthy(s) == s # Undefined /\ s # <<>>

\* U+FEFF, the byte order mark
BOM == 65279

\* U+FFFD, the replacement character
REPLACEMENT == 65533

IsHighSurrogate(c) == c >= 55296 /\ c <= 56319

IsLowSurrogate(c) == c >= 56320 /\ c <= 57343

\* the UTF-8 bytes of one code point
EncodeCodePoint(cp) ==
    IF cp < 128 THEN <<cp>>
    ELSE IF cp < 2048 THEN <<192 + (cp \div 64), 128 + (cp % 64)>>
    ELSE IF cp < 65536
         THEN <<224 + (cp \div 4096), 128 + ((cp \div 64) % 64), 128 + (cp % 64)>>
    ELSE <<240 + (cp \div 262144), 128 + ((cp \div 4096) % 64),
           128 + ((cp \div 64) % 64), 128 + (cp % 64)>>

RECURSIVE TextEncoderEncode(_)
\* new TextEncoder().encode(s): UTF-8, a lone surrogate becomes U+FFFD
TextEncoderEncode(s) ==
    IF s = <<>> THEN <<>>
    ELSE IF IsHighSurrogate(s[1]) /\ Len(s) >= 2 /\ IsLowSurrogate(s[2])
         THEN EncodeCodePoint(65536 + (s[1] - 55296) * 1024 + (s[2] - 56320))
              \o TextEncoderEncode(SubSeq(s, 3, Len(s)))
    ELSE IF IsHighSurrogate(s[1]) \/ IsLowSurrogate(s[1])
         THEN EncodeCodePoint(REPLACEMENT) \o TextEncoderEncode(Tail(s))
    ELSE EncodeCodePoint(s[1]) \o TextEncoderEncode(Tail(s))

IsCont(b) == b >= 128 /\ b <= 191

\* the UTF-16 code units of one code point
CodeUnits(cp) ==
    IF cp < 65536 THEN <<cp>>
    ELSE <<55296 + ((cp - 65536) \div 1024), 56320 + ((cp - 65536) % 1024)>>

RECURSIVE DecodeUtf8(_)
\* the UTF-8 decoder, not fatal: a malformed byte becomes U+FFFD
DecodeUtf8(b) ==
    IF b = <<>> THEN <<>>
    ELSE IF b[1] < 128 THEN <<b[1]>> \o DecodeUtf8(Tail(b))
    ELSE IF b[1] >= 194 /\ b[1] <= 223 /\ Len(b) >= 2 /\ IsCont(b[2])
         THEN <<(b[1] - 192) * 64 + (b[2] - 128)>> \o DecodeUtf8(SubSeq(b, 3, Len(b)))
    ELSE IF b[1] >= 224 /\ b[1] <= 239 /\ Len(b) >= 3 /\ IsCont(b[2]) /\ IsCont(b[3])
            /\ (b[1] = 224 => b[2] >= 160) /\ (b[1] = 237 => b[2] <= 159)
         THEN <<(b[1] - 224) * 4096 + (b[2] - 128) * 64 + (b[3] - 128)>>
              \o DecodeUtf8(SubSeq(b, 4, Len(b)))
    ELSE IF b[1] >= 240 /\ b[1] <= 244 /\ Len(b) >= 4
            /\ IsCont(b[2]) /\ IsCont(b[3]) /\ IsCont(b[4])
            /\ (b[1] = 240 => b[2] >= 144) /\ (b[1] = 244 => b[2] <= 143)
         THEN CodeUnits((b[1] - 240) * 262144 + (b[2] - 128) * 4096
                        + (b[3] - 128) * 64 + (b[4] - 128))
              \o DecodeUtf8(SubSeq(b, 5, Len(b)))
    ELSE <<REPLACEMENT>> \o DecodeUtf8(Tail(b))

\* new TextDecoder().decode(b): ignoreBOM is false, so a leading BOM is dropped
TextDecoderDecode(b) ==
    LET u == DecodeUtf8(b)
    IN  IF u # <<>> /\ u[1] = BOM THEN Tail(u) ELSE u

(***************************************************************************)
(* base64: btoa / atob over binary strings (one char per byte).            *)
(***************************************************************************)
PAD == 64

RECURSIVE btoa(_)
\* btoa(binary): 3 bytes to 4 sextets, '=' padding on the last group
btoa(bytes) ==
    IF bytes = <<>> THEN <<>>
    ELSE IF Len(bytes) = 1
         THEN <<bytes[1] \div 4, (bytes[1] % 4) * 16, PAD, PAD>>
    ELSE IF Len(bytes) = 2
         THEN <<bytes[1] \div 4, (bytes[1] % 4) * 16 + (bytes[2] \div 16),
                (bytes[2] % 16) * 4, PAD>>
    ELSE <<bytes[1] \div 4, (bytes[1] % 4) * 16 + (bytes[2] \div 16),
           (bytes[2] % 16) * 4 + (bytes[3] \div 64), bytes[3] % 64>>
         \o btoa(SubSeq(bytes, 4, Len(bytes)))

\* atob's first step: with a length divisible by 4, one or two trailing '=' go
StripPadding(s) ==
    IF Len(s) > 0 /\ Len(s) % 4 = 0 /\ s[Len(s)] = PAD
    THEN IF Len(s) > 1 /\ s[Len(s) - 1] = PAD
         THEN SubSeq(s, 1, Len(s) - 2)
         ELSE SubSeq(s, 1, Len(s) - 1)
    ELSE s

RECURSIVE DecodeSextets(_)
\* 4 sextets to 3 bytes; 2 or 3 left over give 1 or 2 bytes
DecodeSextets(s) ==
    IF Len(s) < 2 THEN <<>>
    ELSE IF Len(s) = 2 THEN <<s[1] * 4 + (s[2] \div 16)>>
    ELSE IF Len(s) = 3
         THEN <<s[1] * 4 + (s[2] \div 16), (s[2] % 16) * 16 + (s[3] \div 4)>>
    ELSE <<s[1] * 4 + (s[2] \div 16), (s[2] % 16) * 16 + (s[3] \div 4),
           (s[3] % 4) * 64 + s[4]>>
         \o DecodeSextets(SubSeq(s, 5, Len(s)))

\* atob(text): throws InvalidCharacterError on a bad length or character
atob(text) ==
    LET s == StripPadding(text)
    IN  IF Len(s) % 4 = 1 \/ \E i \in 1..Len(s) : s[i] < 0 \/ s[i] > 63
        THEN [ok |-> FALSE, val |-> <<>>]
        ELSE [ok |-> TRUE, val |-> DecodeSextets(s)]

\* arrayBufferToBase64 of a byte array: String.fromCharCode per byte, then btoa
arrayBufferToBase64(bytes) == btoa(bytes)

\* base64ToArrayBuffer / base64ToUint8Array: atob, then charCodeAt per char
base64ToUint8Array(base64) == atob(base64)

(***************************************************************************)
(* utils/crypto.ts.  A call that can throw returns [ok, val]: ok = FALSE   *)
(* is a rejected promise (an exception), val is meaningful when ok.        *)
(***************************************************************************)
Return(v) == [ok |-> TRUE, val |-> v]

Throw == [ok |-> FALSE, val |-> <<>>]

\* a null CryptoKey handle
NoKey == [isNull |-> TRUE, pw |-> <<>>, salt |-> <<>>]

\* the i-th value crypto.getRandomValues yields for a salt (16 bytes)
SaltBytes(n) == [i \in 1..SALT_LENGTH |-> (n * 151 + i * 53) % 256]

\* the i-th value crypto.getRandomValues yields for an IV (12 bytes)
IVBytes(n) == [i \in 1..IV_LENGTH |-> (n * 83 + i * 29) % 256]

\* generateSalt(): the n-th draw of the random generator
generateSalt(n) == SaltBytes(n)

\* generateIV(): the n-th draw of the random generator
generateIV(n) == IVBytes(n)

\* deriveKey: PBKDF2 over the UTF-8 bytes of the password and the salt bytes,
\* any salt length is accepted
deriveKey(masterPassword, salt) ==
    Return([isNull |-> FALSE, pw |-> TextEncoderEncode(masterPassword), salt |-> salt])

\* the empty string in a ciphertext slot
EmptyCt == [kind |-> "empty", k |-> NoKey, n |-> <<>>, m |-> <<>>, intact |-> TRUE]

\* truthiness of a ciphertext slot: only '' is falsy
CtTruthy(c) == c.kind # "empty"

\* no encryption: the text itself is what gets stored
encryptDataPlain(data, key, iv) ==
    [kind |-> "plain", k |-> NoKey, n |-> iv, m |-> TextEncoderEncode(data), intact |-> TRUE]

\* encryptData: AES-GCM of the UTF-8 bytes under (key, iv), base64 of the result
encryptData(data, key, iv) ==
    [kind |-> "ct", k |-> key, n |-> iv, m |-> TextEncoderEncode(data), intact |-> TRUE]

\* decryptData with the key left out of the tag check
decryptDataAnyKey(encryptedData, key, iv) ==
    IF encryptedData.kind = "ct" /\ encryptedData.intact /\ encryptedData.n = iv
    THEN Return(TextDecoderDecode(encryptedData.m))
    ELSE Throw

\* decryptData: the tag verifies only for the untouched ciphertext under the
\* same key and iv; the plaintext bytes go through TextDecoder
decryptData(encryptedData, key, iv) ==
    IF encryptedData.kind = "ct" /\ encryptedData.intact
       /\ encryptedData.k = key /\ encryptedData.n = iv
    THEN Return(TextDecoderDecode(encryptedData.m))
    ELSE Throw

\* encryptPasswordEntry with the IV that generateIV() drew: one iv for both fields
encryptPasswordEntry(entry, key, iv) ==
    [entry EXCEPT !.password = encryptData(entry.password, key, iv),
                  !.notes = IF Truthy(entry.notes)
                            THEN encryptData(entry.notes, key, iv)
                            ELSE EmptyCt,
                  !.iv = arrayBufferToBase64(iv)]

\* decryptPasswordEntry: throws when the iv is no base64 or a field fails to open
decryptPasswordEntry(encryptedEntry, key) ==
    LET iv == base64ToUint8Array(encryptedEntry.iv)
        password == decryptData(encryptedEntry.password, key, iv.val)
        notes == IF CtTruthy(encryptedEntry.notes)
                 THEN decryptData(encryptedEntry.notes, key, iv.val)
                 ELSE Return(<<>>)
    IN  IF ~iv.ok \/ ~password.ok \/ ~notes.ok
        THEN Throw
        ELSE Return([encryptedEntry EXCEPT !.password = password.val,
                                           !.notes = notes.val,
                                           !.iv = Undefined])

\* a verification that tries every record instead of the first
VerifyBodyEvery(masterPassword, vaultSalt, vaultData) ==
    LET salt == base64ToUint8Array(vaultSalt)
        key == deriveKey(masterPassword, salt.val)
    IN  IF ~salt.ok \/ ~key.ok THEN Throw
        ELSE IF \E i \in 1..Len(vaultData) : ~decryptPasswordEntry(vaultData[i], key.val).ok
             THEN Throw
        ELSE Return(TRUE)

\* verifyMasterPassword without its try/catch: a failure of any step propagates
VerifyBody(masterPassword, vaultSalt, vaultData) ==
    LET salt == base64ToUint8Array(vaultSalt)
        key == deriveKey(masterPassword, salt.val)
    IN  IF ~salt.ok \/ ~key.ok THEN Throw
        ELSE IF Len(vaultData) > 0 /\ ~decryptPasswordEntry(vaultData[1], key.val).ok
             THEN Throw
        ELSE Return(TRUE)

\* the body without a catch: the failure reaches the caller
CatchNothing(r) == r

\* try { body } catch { return false }
CatchReturnFalse(r) == IF r.ok THEN r ELSE Return(FALSE)

\* verifyMasterPassword(masterPassword, vaultSalt, vaultData)
verifyMasterPassword(masterPassword, vaultSalt, vaultData) ==
    CatchReturnFalse(VerifyBody(masterPassword, vaultSalt, vaultData))

(***************************************************************************)
(* utils/validation.js: validateMasterPassword.                            *)
(***************************************************************************)
IsLower(c) == c >= 97 /\ c <= 122

IsUpper(c) == c >= 65 /\ c <= 90

IsDigit(c) == c >= 48 /\ c <= 57

\* the class [!@#$%^&*()_+\-=[\]{}|;:,.<>?]
SpecialChars ==
    {33, 64, 35, 36, 37, 94, 38, 42, 40, 41, 95, 43, 45, 61, 91, 93, 123, 125,
     124, 59, 58, 44, 46, 60, 62, 63}

\* String.prototype.toLowerCase on the code units the model uses
ToLowerCase(s) == [i \in 1..Len(s) |-> IF IsUpper(s[i]) THEN s[i] + 32 ELSE s[i]]

\* the commonPasswords list of isCommonPassword
CommonPasswords ==
    {<<112, 97, 115, 115, 119, 111, 114, 100>>,
     <<49, 50, 51, 52, 53, 54>>,
     <<49, 50, 51, 52, 53, 54, 55, 56, 57>>,
     <<113, 119, 101, 114, 116, 121>>,
     <<97, 98, 99, 49, 50, 51>>,
     <<112, 97, 115, 115, 119, 111, 114, 100, 49, 50, 51>>,
     <<97, 100, 109, 105, 110>>,
     <<108, 101, 116, 109, 101, 105, 110>>,
     <<119, 101, 108, 99, 111, 109, 101>>,
     <<109, 111, 110, 107, 101, 121>>,
     <<49, 50, 51, 52, 53, 54, 55, 56, 57, 48>>,
     <<100, 114, 97, 103, 111, 110>>,
     <<109, 97, 115, 116, 101, 114>>,
     <<104, 101, 108, 108, 111>>,
     <<102, 114, 101, 101, 100, 111, 109>>,
     <<119, 104, 97, 116, 101, 118, 101, 114>>,
     <<113, 97, 122, 119, 115, 120>>,
     <<116, 114, 117, 115, 116, 110, 111, 49>>,
     <<106, 111, 114, 100, 97, 110>>,
     <<106, 101, 110, 110, 105, 102, 101, 114>>,
     <<122, 120, 99, 118, 98, 110, 109>>,
     <<97, 115, 100, 102, 103, 104>>,
     <<104, 117, 110, 116, 101, 114>>,
     <<98, 117, 115, 116, 101, 114>>,
     <<115, 111, 99, 99, 101, 114>>,
     <<104, 97, 114, 108, 101, 121>>,
     <<97, 110, 100, 114, 101, 119>>,
     <<116, 105, 103, 103, 101, 114>>,
     <<115, 117, 110, 115, 104, 105, 110, 101>>,
     <<105, 108, 111, 118, 101, 121, 111, 117>>,
     <<50, 48, 48, 48>>,
     <<99, 104, 97, 114, 108, 105, 101>>,
     <<114, 111, 98, 101, 114, 116>>,
     <<116, 104, 111, 109, 97, 115>>,
     <<104, 111, 99, 107, 101, 121>>,
     <<114, 97, 110, 103, 101, 114>>,
     <<100, 97, 110, 105, 101, 108>>,
     <<115, 116, 97, 114, 119, 97, 114, 115>>,
     <<107, 108, 97, 115, 116, 101, 114>>,
     <<49, 49, 50, 50, 51, 51>>,
     <<103, 101, 111, 114, 103, 101>>,
     <<99, 111, 109, 112, 117, 116, 101, 114>>,
     <<109, 105, 99, 104, 101, 108, 108, 101>>,
     <<106, 101, 115, 115, 105, 99, 97>>,
     <<112, 101, 112, 112, 101, 114>>,
     <<49, 50, 51, 52>>,
     <<49, 50, 51, 52, 53>>,
     <<49, 50, 51, 52, 53, 54, 55>>,
     <<49, 50, 51, 52, 53, 54, 55, 56>>,
     <<49, 50, 51, 52, 53, 54, 55, 56, 57, 48>>}

isCommonPassword(password) == ToLowerCase(password) \in CommonPasswords

\* /(.)\1{2,}/ : some character three times in a row (. is no line break)
hasRepeatedCharacters(password) ==
    \E i \in 1..(Len(password) - 2) :
        /\ password[i] = password[i + 1]
        /\ password[i] = password[i + 2]
        /\ password[i] \notin {10, 13, 8232, 8233}

\* a validation that accepts every password
validateAnyPassword(password) == TRUE

\* validateMasterPassword(password).isValid
validateMasterPassword(password) ==
    /\ Truthy(password)
    /\ Len(password) >= MIN_PASSWORD_LENGTH
    /\ Len(password) <= MAX_PASSWORD_LENGTH
    /\ \E i \in 1..Len(password) : IsLower(password[i])
    /\ \E i \in 1..Len(password) : IsUpper(password[i])
    /\ \E i \in 1..Len(password) : IsDigit(password[i])
    /\ \E i \in 1..Len(password) : password[i] \in SpecialChars
    /\ ~isCommonPassword(password)
    /\ ~hasRepeatedCharacters(password)

(***************************************************************************)
(* Inputs the model draws from.                                            *)
(***************************************************************************)
\* "Abcdef12!"
P1 == <<65, 98, 99, 100, 101, 102, 49, 50, 33>>

\* "Wrong2@xy"
P2 == <<87, 114, 111, 110, 103, 50, 64, 120, 121>>

\* "password": fails validateMasterPassword
PWeak == <<112, 97, 115, 115, 119, 111, 114, 100>>

\* master passwords ('' included)
Passphrases == {P1, P2, PWeak, <<>>}

\* "s3"
S1 == <<115, 51>>

\* U+FEFF followed by "k": text pasted from a file that starts with a BOM
S2 == <<BOM, 107>>

\* "n"
N1 == <<110>>

\* what the password form submits: formData.password and formData.notes
FormData == {[password |-> S1, notes |-> <<>>], [password |-> S2, notes |-> N1]}

\* outcomes of one localStorage write: done, refused (the availability probe or
\* setItem fails, false is returned), or QuotaExceededError rethrown
WriteEnvs == {"ok", "unavailable", "quota"}

\* outcomes of one localStorage read: served, or the default value is returned
ReadEnvs == {"ok", "unavailable"}

(***************************************************************************)
(* State.                                                                  *)
(***************************************************************************)
VARIABLES
    lsSalt,              \* localStorage vault_salt (Undefined: no such key)
    lsData,              \* localStorage vault_data: [present, items]
    lsTimeout,           \* localStorage session_timeout (-1: no such key)
    encryptionKey,       \* AuthProvider state
    isAuthenticated,     \* AuthProvider state
    page,                \* the mounted route: "auth" (AuthGate) or "vault" (VaultPage)
    isNewVault,          \* AuthGate state
    errors,              \* AuthGate state: the message last set by setErrors
    passwords,           \* VaultPage state: the decrypted list
    isLoading,           \* VaultPage state
    vaultError,          \* VaultPage state: the message last set by setError
    pending,             \* add/edit handlers suspended at await encryptPasswordEntry
    now,                 \* Date.now()
    autoLockAt,          \* due time of the auto-lock timer (-1: none)
    resetTimerAt,        \* due time of the activity timer resetTimeoutId (-1: none)
    lastActivity,        \* the activity effect's lastActivity
    sessionTimeoutState, \* SessionProvider state sessionTimeout (-1: null)
    activities,          \* history: user activity events so far
    unserved,            \* history: time of the oldest activity event that no
                         \* rewrite of the deadline has followed yet (-1: none)
    saltCounter,         \* salts drawn so far
    ivCounter,           \* IVs drawn so far
    nextId,              \* UUIDs drawn so far
    creator,             \* history: the last completed vault creation, and whether
                         \* the page was reloaded since
    encLog,              \* history: every ciphertext encryptData has produced
    faults,              \* history: localStorage calls that failed so far
    call                 \* the last call of a pure function, with its result

storeVars == <<lsSalt, lsData, lsTimeout>>

authVars == <<encryptionKey, isAuthenticated>>

gateVars == <<page, isNewVault, errors>>

vaultVars == <<passwords, isLoading, vaultError, pending>>

sessVars ==
    <<now, autoLockAt, resetTimerAt, lastActivity, sessionTimeoutState, activities,
      unserved>>

rngVars == <<saltCounter, ivCounter, nextId>>

histVars == <<creator, encLog>>

vars ==
    <<storeVars, authVars, gateVars, vaultVars, sessVars, rngVars, histVars, faults,
      call>>

NoCall == [fn |-> "none"]

NoCreator == [made |-> FALSE, pw |-> <<>>, salt |-> <<>>, key |-> NoKey, restarted |-> FALSE]

\* the localStorage calls of one step that fail, within the fault budget
FaultCount(envs) == Cardinality({i \in 1..Len(envs) : envs[i] # "ok"})

Charge(envs) ==
    /\ faults + FaultCount(envs) <= MaxFaults
    /\ faults' = faults + FaultCount(envs)

\* a fresh browser profile with the application just mounted on "/"
Init ==
    /\ lsSalt = Undefined
    /\ lsData = [present |-> FALSE, items |-> <<>>]
    /\ lsTimeout = 0
    /\ encryptionKey = NoKey
    /\ isAuthenticated = FALSE
    /\ page = "auth"
    /\ isNewVault = TRUE
    /\ errors = "none"
    /\ passwords = <<>>
    /\ isLoading = TRUE
    /\ vaultError = "none"
    /\ pending = {}
    /\ now = 0
    /\ autoLockAt = -1
    /\ resetTimerAt = -1
    /\ lastActivity = 0
    /\ sessionTimeoutState = -1
    /\ activities = 0
    /\ unserved = -1
    /\ saltCounter = 0
    /\ ivCounter = 0
    /\ nextId = 0
    /\ creator = NoCreator
    /\ encLog = {}
    /\ faults = 0
    /\ call = NoCall

(***************************************************************************)
(* utils/storage.ts.                                                       *)
(***************************************************************************)
\* setStorageItem: true, false, or the quota error rethrown
setStorageItem(env) ==
    IF env = "quota" THEN Throw ELSE Return(env = "ok")

\* getVaultSalt(): the stored string, or null
getVaultSalt(env) == IF env = "ok" THEN lsSalt ELSE Undefined

\* getVaultData(): the stored array, or []
getVaultData(env) == IF env = "ok" /\ lsData.present THEN lsData.items ELSE <<>>

\* vaultExists(): salt !== null && Array.isArray(data); the data read is an array
\* whatever its outcome
vaultExists(envSalt) == getVaultSalt(envSalt) # Undefined

\* what vault_data holds after setVaultData(data) with outcome env
WrittenData(data, env) ==
    IF env = "ok" THEN [present |-> TRUE, items |-> data] ELSE lsData

\* Array.prototype.findIndex(entry => entry.id === id), 0 for -1
FindIndex(list, id) ==
    IF \E i \in 1..Len(list) : list[i].id = id
    THEN CHOOSE i \in 1..Len(list) :
             list[i].id = id /\ \A j \in 1..(i - 1) : list[j].id # id
    ELSE 0

\* Array.prototype.filter(entry => entry.id !== id)
RECURSIVE FilterOut(_, _)
FilterOut(list, id) ==
    IF list = <<>> THEN <<>>
    ELSE (IF Head(list).id # id THEN <<Head(list)>> ELSE <<>>) \o FilterOut(Tail(list), id)

\* an add that puts the new entry in front
AddedDataInFront(entry, envRead) == <<entry>> \o getVaultData(envRead)

\* the array addPasswordEntry hands to setVaultData
AddedData(entry, envRead) == Append(getVaultData(envRead), entry)

\* an update that keeps the iv field of the stored version
UpdatedDataKeepIv(id, updatedEntry, envRead) ==
    LET vaultData == getVaultData(envRead)
        index == FindIndex(vaultData, id)
    IN  [vaultData EXCEPT ![index] = [updatedEntry EXCEPT !.updatedAt = now,
                                                          !.iv = vaultData[index].iv]]

\* the array updatePasswordEntry hands to setVaultData (index found)
UpdatedData(id, updatedEntry, envRead) ==
    LET vaultData == getVaultData(envRead)
        index == FindIndex(vaultData, id)
    IN  [vaultData EXCEPT ![index] = [updatedEntry EXCEPT !.updatedAt = now]]

(***************************************************************************)
(* AuthProvider and SessionProvider: login, logout and the effects that    *)
(* run when isAuthenticated changes.                                       *)
(***************************************************************************)
\* login(key), then the session effects: the deadline is stored and shown, the
\* auto-lock timer is armed, the activity effect starts with lastActivity = now
LoginEffects(key, envT) ==
    /\ encryptionKey' = key
    /\ isAuthenticated' = TRUE
    /\ sessionTimeoutState' = now + SESSION_DURATION
    /\ lsTimeout' = IF envT = "ok" THEN now + SESSION_DURATION ELSE lsTimeout
    /\ autoLockAt' = now + SESSION_DURATION
    /\ lastActivity' = now
    /\ resetTimerAt' = -1
    /\ now' = now
    /\ activities' = activities
    /\ unserved' = -1

\* a logout that clears the key and leaves the flag
LogoutEffectsKeepingFlag(envT) ==
    /\ encryptionKey' = NoKey
    /\ isAuthenticated' = isAuthenticated
    /\ sessionTimeoutState' = -1
    /\ lsTimeout' = IF envT = "ok" THEN 0 ELSE lsTimeout
    /\ autoLockAt' = -1
    /\ resetTimerAt' = -1
    /\ lastActivity' = lastActivity
    /\ now' = now
    /\ activities' = activities
    /\ unserved' = -1

\* logout(), then the session effects: both timers are cleared by the effect
\* cleanups, the shown deadline is null and 0 is stored
LogoutEffects(envT) ==
    /\ encryptionKey' = NoKey
    /\ isAuthenticated' = FALSE
    /\ sessionTimeoutState' = -1
    /\ lsTimeout' = IF envT = "ok" THEN 0 ELSE lsTimeout
    /\ autoLockAt' = -1
    /\ resetTimerAt' = -1
    /\ lastActivity' = lastActivity
    /\ now' = now
    /\ activities' = activities
    /\ unserved' = -1

\* the effect with the store left out: the create form is always offered
MountAuthGateNoEffect(envS) ==
    /\ page' = "auth"
    /\ isNewVault' = TRUE
    /\ errors' = "none"

\* AuthGate mounts: its effect runs setIsNewVault(!vaultExists())
MountAuthGate(envS) ==
    /\ page' = "auth"
    /\ isNewVault' = ~vaultExists(envS)
    /\ errors' = "none"

\* VaultPage mounts with its initial state
MountVaultPage ==
    /\ page' = "vault"
    /\ passwords' = <<>>
    /\ isLoading' = TRUE
    /\ vaultError' = "none"

\* VaultPage unmounts: its state is gone, suspended handlers keep running but
\* their state updates no longer land
UnmountVaultPage ==
    /\ passwords' = <<>>
    /\ isLoading' = TRUE
    /\ vaultError' = "none"
    /\ pending' = {[p EXCEPT !.stale = TRUE] : p \in pending}

(***************************************************************************)
(* AuthGate handlers (through handleSubmit, which shows a thrown error).   *)
(***************************************************************************)
\* the inline decoding with the characters taken as 7-bit
saltFromBase64Ascii(vaultSalt) ==
    LET raw == atob(vaultSalt).val IN [i \in 1..Len(raw) |-> raw[i] % 128]

\* new Uint8Array(atob(vaultSalt).split('').map(char => char.charCodeAt(0)))
saltFromBase64(vaultSalt) == atob(vaultSalt).val

handleCreateVault(masterPassword, confirmPassword, e1, e2, envT) ==
    /\ Charge(<<e1, e2, envT>>)
    /\ page = "auth"
    /\ isNewVault
    /\ saltCounter < MaxSalts
    /\ LET valid == validateMasterPassword(masterPassword)
                    /\ masterPassword = confirmPassword
           salt == generateSalt(saltCounter + 1)
           key == deriveKey(masterPassword, salt).val
           saltBase64 == btoa(salt)
           reached2 == valid /\ setStorageItem(e1).ok
           done == reached2 /\ setStorageItem(e2).ok
       IN  /\ lsSalt' = IF valid /\ e1 = "ok" THEN saltBase64 ELSE lsSalt
           /\ lsData' = IF reached2 THEN WrittenData(<<>>, e2) ELSE lsData
           /\ saltCounter' = IF valid THEN saltCounter + 1 ELSE saltCounter
           /\ errors' = IF ~validateMasterPassword(masterPassword) THEN "validation"
                        ELSE IF masterPassword # confirmPassword THEN "mismatch"
                        ELSE IF ~done THEN "quota"
                        ELSE "none"
           /\ creator' = IF done /\ e1 = "ok" /\ e2 = "ok"
                         THEN [made |-> TRUE, pw |-> masterPassword, salt |-> saltBase64,
                               key |-> key, restarted |-> FALSE]
                         ELSE creator
           /\ IF done
              THEN /\ LoginEffects(key, envT)
                   /\ MountVaultPage
                   /\ UNCHANGED <<isNewVault, pending>>
              ELSE UNCHANGED <<lsTimeout, authVars, sessVars, page, isNewVault, vaultVars>>
    /\ UNCHANGED <<ivCounter, nextId, encLog, call>>

handleUnlockVault(masterPassword, envS, envD, envT) ==
    /\ Charge(<<envS, envD, envT>>)
    /\ page = "auth"
    /\ ~isNewVault
    /\ LET vaultSalt == getVaultSalt(envS)
           vaultData == getVaultData(envD)
           present == Truthy(masterPassword) /\ Truthy(vaultSalt)
           isValid == verifyMasterPassword(masterPassword, vaultSalt, vaultData)
           done == present /\ isValid.ok /\ isValid.val
           key == deriveKey(masterPassword, saltFromBase64(vaultSalt)).val
       IN  /\ errors' = IF ~Truthy(masterPassword) THEN "required"
                        ELSE IF ~Truthy(vaultSalt) THEN "corrupted"
                        ELSE IF ~isValid.ok THEN "exception"
                        ELSE IF ~isValid.val THEN "incorrect"
                        ELSE "none"
           /\ IF done
              THEN /\ LoginEffects(key, envT)
                   /\ MountVaultPage
                   /\ UNCHANGED <<isNewVault, pending>>
              ELSE UNCHANGED <<lsTimeout, authVars, sessVars, page, isNewVault, vaultVars>>
    /\ UNCHANGED <<lsSalt, lsData, rngVars, histVars, call>>

(***************************************************************************)
(* VaultPage handlers.  handleAddPassword and handleEditPassword suspend   *)
(* at await encryptPasswordEntry: the part before the await (the IV is     *)
(* drawn there) and the part after it are two steps.                       *)
(***************************************************************************)
\* the loop without its inner try/catch: the first failure ends the load
RECURSIVE DecryptAllAbort(_, _)
DecryptAllAbort(list, key) ==
    IF list = <<>> THEN <<>>
    ELSE LET r == decryptPasswordEntry(Head(list), key)
         IN  IF r.ok THEN <<r.val>> \o DecryptAllAbort(Tail(list), key) ELSE <<>>

RECURSIVE DecryptAll(_, _)
\* the loop of loadPasswords: a record that fails to decrypt is skipped
DecryptAll(list, key) ==
    IF list = <<>> THEN <<>>
    ELSE LET r == decryptPasswordEntry(Head(list), key)
         IN  (IF r.ok THEN <<r.val>> ELSE <<>>) \o DecryptAll(Tail(list), key)

loadPasswords(envR) ==
    /\ Charge(<<envR>>)
    /\ page = "vault"
    /\ isLoading
    /\ ~encryptionKey.isNull
    /\ passwords' = DecryptAll(getVaultData(envR), encryptionKey)
    /\ isLoading' = FALSE
    /\ UNCHANGED <<storeVars, authVars, gateVars, vaultError, pending, sessVars,
                   rngVars, histVars, call>>

\* the ciphertexts an encrypted entry carries
Ciphertexts(enc) ==
    {enc.password} \cup (IF CtTruthy(enc.notes) THEN {enc.notes} ELSE {})

\* the form is usable: the page is loaded and a key is held
CanSubmit ==
    /\ page = "vault"
    /\ ~isLoading
    /\ ~encryptionKey.isNull
    /\ Cardinality(pending) < MaxPending
    /\ ivCounter < MaxIV

Suspend(kind, plain) ==
    LET enc == encryptPasswordEntry(plain, encryptionKey, generateIV(ivCounter + 1))
    IN  /\ pending' = pending \cup
                      {[kind |-> kind, plain |-> plain, enc |-> enc, stale |-> FALSE]}
        /\ encLog' = encLog \cup Ciphertexts(enc)
        /\ ivCounter' = ivCounter + 1

\* handleAddPassword up to its await
handleAddPasswordStart(passwordData) ==
    /\ CanSubmit
    /\ nextId < MaxRecords
    /\ Suspend("add", [id |-> nextId + 1, title |-> <<116>>, username |-> Undefined,
                       url |-> <<>>, password |-> passwordData.password,
                       notes |-> passwordData.notes, createdAt |-> now,
                       updatedAt |-> now, iv |-> Undefined])
    /\ nextId' = nextId + 1
    /\ UNCHANGED <<faults, storeVars, authVars, gateVars, passwords, isLoading, vaultError,
                   sessVars, saltCounter, creator, call>>

\* handleAddPassword after its await: addPasswordEntry, then setPasswords, or
\* setError when the write threw
handleAddPasswordFinish(p, envR, envW) ==
    /\ Charge(<<envR, envW>>)
    /\ p \in pending
    /\ p.kind = "add"
    /\ lsData' = WrittenData(AddedData(p.enc, envR), envW)
    /\ pending' = pending \ {p}
    /\ passwords' = IF ~p.stale /\ setStorageItem(envW).ok
                    THEN Append(passwords, p.plain)
                    ELSE passwords
    /\ vaultError' = IF ~p.stale /\ ~setStorageItem(envW).ok
                     THEN "Failed to add password"
                     ELSE vaultError
    /\ UNCHANGED <<lsSalt, lsTimeout, authVars, gateVars, isLoading, sessVars,
                   rngVars, histVars, call>>

\* handleEditPassword up to its await; editingPassword is a shown entry
handleEditPasswordStart(i, passwordData) ==
    /\ CanSubmit
    /\ i \in 1..Len(passwords)
    /\ Suspend("edit", [passwords[i] EXCEPT !.password = passwordData.password,
                                            !.notes = passwordData.notes,
                                            !.updatedAt = now])
    /\ UNCHANGED <<faults, storeVars, authVars, gateVars, passwords, isLoading, vaultError,
                   sessVars, saltCounter, nextId, creator, call>>

\* a map that leaves the list as it is
MapKeep(list, id, updated) == list

\* Array.prototype.map(pwd => pwd.id === id ? updated : pwd)
MapReplace(list, id, updated) ==
    [i \in 1..Len(list) |-> IF list[i].id = id THEN updated ELSE list[i]]

\* handleEditPassword after its await: updatePasswordEntry (false when the id
\* is not in the store), then setPasswords, or setError when the write threw
handleEditPasswordFinish(p, envR, envW) ==
    /\ Charge(<<envR, envW>>)
    /\ p \in pending
    /\ p.kind = "edit"
    /\ LET found == FindIndex(getVaultData(envR), p.plain.id) # 0
           threw == found /\ ~setStorageItem(envW).ok
       IN  /\ lsData' = IF found
                        THEN WrittenData(UpdatedData(p.plain.id, p.enc, envR), envW)
                        ELSE lsData
           /\ passwords' = IF ~p.stale /\ ~threw
                           THEN MapReplace(passwords, p.plain.id, p.plain)
                           ELSE passwords
           /\ vaultError' = IF ~p.stale /\ threw
                            THEN "Failed to update password"
                            ELSE vaultError
    /\ pending' = pending \ {p}
    /\ UNCHANGED <<lsSalt, lsTimeout, authVars, gateVars, isLoading, sessVars,
                   rngVars, histVars, call>>

\* handleDeletePassword (confirmed): deletePasswordEntry (false when the id is
\* not in the store), then setPasswords, or setError when the write threw
handleDeletePassword(id, envR, envW) ==
    /\ Charge(<<envR, envW>>)
    /\ page = "vault"
    /\ ~isLoading
    /\ \E i \in 1..Len(passwords) : passwords[i].id = id
    /\ LET vaultData == getVaultData(envR)
           filteredData == FilterOut(vaultData, id)
           found == Len(filteredData) # Len(vaultData)
           threw == found /\ ~setStorageItem(envW).ok
       IN  /\ lsData' = IF found THEN WrittenData(filteredData, envW) ELSE lsData
           /\ passwords' = IF ~threw THEN FilterOut(passwords, id) ELSE passwords
           /\ vaultError' = IF threw THEN "Failed to delete password" ELSE vaultError
    /\ UNCHANGED <<lsSalt, lsTimeout, authVars, gateVars, isLoading, pending,
                   sessVars, rngVars, histVars, call>>

\* VaultPage handleLogout: logout(), navigate('/')
handleLogout(envS, envT) ==
    /\ Charge(<<envS, envT>>)
    /\ page = "vault"
    /\ isAuthenticated
    /\ LogoutEffects(envT)
    /\ UnmountVaultPage
    /\ MountAuthGate(envS)
    /\ UNCHANGED <<lsSalt, lsData, rngVars, histVars, call>>

\* the page is reloaded: memory is lost, suspended handlers with it; the
\* providers and AuthGate mount again
Restart(envS, envT) ==
    /\ Charge(<<envS, envT>>)
    /\ LogoutEffects(envT)
    /\ passwords' = <<>>
    /\ isLoading' = TRUE
    /\ vaultError' = "none"
    /\ pending' = {}
    /\ MountAuthGate(envS)
    /\ creator' = [creator EXCEPT !.restarted = creator.made]
    /\ UNCHANGED <<lsSalt, lsData, rngVars, encLog, call>>

\* a stored record is damaged outside the application: a byte of its password
\* ciphertext is flipped
Corrupt(i) ==
    /\ i \in 1..Len(lsData.items)
    /\ lsData.items[i].password.kind = "ct"
    /\ lsData.items[i].password.intact
    /\ lsData' = [lsData EXCEPT !.items[i].password.intact = FALSE]
    /\ UNCHANGED <<faults, lsSalt, lsTimeout, authVars, gateVars, vaultVars, sessVars,
                   rngVars, histVars, call>>

\* what the user may submit on the create form: password and confirmation
CreateInputs == {<<P1, P1>>, <<PWeak, PWeak>>, <<P1, P2>>}

\* what the user may submit on the unlock form
UnlockInputs == {P1, P2, <<>>}

\* the handlers, with the outcomes of their localStorage calls drawn from R
\* (reads) and W (writes)
VaultStep(R, W) ==
    \/ \E in \in CreateInputs, e1 \in W, e2 \in W, envT \in R :
           handleCreateVault(in[1], in[2], e1, e2, envT)
    \/ \E pw \in UnlockInputs, envS \in R, envD \in R, envT \in R :
           handleUnlockVault(pw, envS, envD, envT)
    \/ \E envR \in R : loadPasswords(envR)
    \/ \E fd \in FormData : handleAddPasswordStart(fd)
    \/ \E p \in pending, envR \in R, envW \in W :
           handleAddPasswordFinish(p, envR, envW)
    \/ \E i \in 1..MaxRecords, fd \in FormData : handleEditPasswordStart(i, fd)
    \/ \E p \in pending, envR \in R, envW \in W :
           handleEditPasswordFinish(p, envR, envW)
    \/ \E id \in 1..MaxRecords, envR \in R, envW \in W :
           handleDeletePassword(id, envR, envW)
    \/ \E envS \in R, envT \in R : handleLogout(envS, envT)
    \/ \E envS \in R, envT \in R : Restart(envS, envT)

\* a store that works, whose records may be damaged from outside
NextVault ==
    \/ VaultStep({"ok"}, {"ok"})
    \/ \E i \in 1..MaxRecords : Corrupt(i)

\* a store whose calls may fail, within the fault budget
NextFaulty == VaultStep(ReadEnvs, WriteEnvs)

SpecVault == Init /\ [][NextVault]_vars

SpecFaulty == Init /\ [][NextFaulty]_vars

(***************************************************************************)
(* SessionProvider: the timers of a session.  Time passes between the      *)
(* steps; a timer fires when it is due.                                    *)
(***************************************************************************)
\* a mousedown, mousemove, keypress, scroll or touchstart: throttledReset clears
\* the pending resetTimeoutId and sets a new one
throttledReset ==
    /\ isAuthenticated
    /\ activities < MaxActivity
    /\ activities' = activities + 1
    /\ unserved' = IF unserved = -1 THEN now ELSE unserved
    /\ resetTimerAt' = now + ACTIVITY_RESET_THROTTLE
    /\ UNCHANGED <<storeVars, authVars, gateVars, vaultVars, now, autoLockAt,
                   lastActivity, sessionTimeoutState, rngVars, histVars, faults, call>>

\* resetTimeoutId fires: resetSession stores and shows a new deadline unless the
\* last one is younger than the throttle; the auto-lock timer is not touched
resetSession ==
    /\ resetTimerAt # -1
    /\ now >= resetTimerAt
    /\ resetTimerAt' = -1
    /\ IF now - lastActivity < ACTIVITY_RESET_THROTTLE
       THEN UNCHANGED <<lastActivity, sessionTimeoutState, lsTimeout, unserved>>
       ELSE /\ lastActivity' = now
            /\ unserved' = -1
            /\ sessionTimeoutState' = now + SESSION_DURATION
            /\ lsTimeout' = now + SESSION_DURATION
    /\ UNCHANGED <<lsSalt, lsData, authVars, gateVars, vaultVars, now, autoLockAt,
                   activities, rngVars, histVars, faults, call>>

\* an extension that also sets the auto-lock timer anew
extendSessionRearming ==
    /\ isAuthenticated
    /\ sessionTimeoutState' = now + SESSION_DURATION
    /\ lsTimeout' = now + SESSION_DURATION
    /\ autoLockAt' = now + SESSION_DURATION
    /\ unserved' = -1
    /\ UNCHANGED <<lsSalt, lsData, authVars, gateVars, vaultVars, now, resetTimerAt,
                   lastActivity, activities, rngVars, histVars, faults, call>>

\* extendSession(): a new deadline is stored and shown
extendSession ==
    /\ isAuthenticated
    /\ sessionTimeoutState' = now + SESSION_DURATION
    /\ lsTimeout' = now + SESSION_DURATION
    /\ unserved' = -1
    /\ UNCHANGED <<lsSalt, lsData, authVars, gateVars, vaultVars, now, autoLockAt,
                   resetTimerAt, lastActivity, activities, rngVars, histVars, faults,
                   call>>

\* the auto-lock timer set at login fires: logout(), then the session effects
autoLock ==
    /\ autoLockAt # -1
    /\ now >= autoLockAt
    /\ LogoutEffects("ok")
    /\ UNCHANGED <<lsSalt, lsData, gateVars, vaultVars, rngVars, histVars, faults, call>>

\* the due times of the pending timers
Due == {t \in {autoLockAt, resetTimerAt} : t # -1}

\* time passes: up to the next due timer, or by WARNING_TIME when none is due
\* before
Tick ==
    /\ \E t \in Due \cup {now + WARNING_TIME} :
           /\ t > now
           /\ t <= MaxTime
           /\ \A d \in Due : t <= d
           /\ now' = t
    /\ UNCHANGED <<storeVars, authVars, gateVars, vaultVars, autoLockAt, resetTimerAt,
                   lastActivity, sessionTimeoutState, activities, unserved, rngVars,
                   histVars,
                   faults, call>>

NextSession ==
    \/ \E in \in CreateInputs : handleCreateVault(in[1], in[2], "ok", "ok", "ok")
    \/ \E pw \in UnlockInputs : handleUnlockVault(pw, "ok", "ok", "ok")
    \/ loadPasswords("ok")
    \/ handleLogout("ok", "ok")
    \/ Restart("ok", "ok")
    \/ throttledReset
    \/ resetSession
    \/ extendSession
    \/ autoLock
    \/ Tick

SpecSession == Init /\ [][NextSession]_vars

\* time passes by less than the throttle while resetTimeoutId is pending
TickWithinThrottle ==
    /\ resetTimerAt # -1
    /\ now + (ACTIVITY_RESET_THROTTLE \div 2) <= MaxTime
    /\ \A d \in Due : now + (ACTIVITY_RESET_THROTTLE \div 2) <= d
    /\ now' = now + (ACTIVITY_RESET_THROTTLE \div 2)
    /\ UNCHANGED <<storeVars, authVars, gateVars, vaultVars, autoLockAt, resetTimerAt,
                   lastActivity, sessionTimeoutState, activities, unserved, rngVars,
                   histVars, faults, call>>

\* one session with its activity events, on a clock fine enough for events less
\* than the throttle apart
NextActivity ==
    \/ handleCreateVault(P1, P1, "ok", "ok", "ok")
    \/ throttledReset
    \/ resetSession
    \/ extendSession
    \/ autoLock
    \/ Tick
    \/ TickWithinThrottle

SpecActivity == Init /\ [][NextActivity]_vars

\* C3: the auto-lock timer locks the session only when SESSION_DURATION has
\* passed since the last user activity that reset the session deadline (or since
\* login when there was none): activity before that moment postpones the lock.
C3_LockOnlyAfterInactivity ==
    [][autoLock => now - lastActivity >= SESSION_DURATION]_vars

(***************************************************************************)
(* The functions of utils/crypto.ts called on their own.  Each step is one *)
(* call; call records its arguments and its result.                        *)
(***************************************************************************)
\* a plaintext entry as the forms build it
PlainEntry(i, fd) ==
    [id |-> i, title |-> <<116>>, username |-> Undefined, url |-> <<>>,
     password |-> fd.password, notes |-> fd.notes, createdAt |-> 0, updatedAt |-> 0,
     iv |-> Undefined]

\* plaintexts: ASCII, empty, a leading U+FEFF, an inner U+FEFF, U+00E9, U+1F511
Plaintexts == {S1, S2, N1, <<>>, <<107, BOM>>, <<233>>, <<55357, 56593>>}

\* form contents for the entry calls; notes may be absent
EntryData ==
    FormData \cup {[password |-> <<233>>, notes |-> Undefined],
                   [password |-> <<>>, notes |-> <<107, BOM>>]}

\* the passphrases a caller may try
TriedPassphrases == {P1, P2, <<65, 98, 99, 100, 101, 102, 49, 50, 233>>}

\* a character atob rejects
BadChar == PAD + 1

\* n records encrypted under key, each with an IV of its own
RecordsUnder(key, n) ==
    [i \in 1..n |-> encryptPasswordEntry(PlainEntry(i, [password |-> S1, notes |-> N1]),
                                         key, generateIV(i))]

\* the ways the stored vault may be damaged before the call
Damages == {"none", "salt", "iv", "ciphertext"}

DamagedSalt(saltBase64, damage) ==
    IF damage = "salt" THEN <<BadChar>> \o saltBase64 ELSE saltBase64

DamagedRecords(records, damage) ==
    IF records = <<>> THEN records
    ELSE CASE damage = "iv" -> [records EXCEPT ![1].iv = <<BadChar>> \o @]
           [] damage = "ciphertext" -> [records EXCEPT ![1].password.intact = FALSE]
           [] OTHER -> records

\* verifyMasterPassword(tried, salt, records) on a vault that owner created
CallVerify(owner, tried, s, n, damage) ==
    LET salt == generateSalt(s)
        key == deriveKey(owner, salt).val
        vaultSalt == DamagedSalt(arrayBufferToBase64(salt), damage)
        vaultData == DamagedRecords(RecordsUnder(key, n), damage)
    IN  /\ call' = [fn |-> "verifyMasterPassword", owner |-> owner, tried |-> tried,
                    salt |-> s, records |-> n, damage |-> damage,
                    result |-> verifyMasterPassword(tried, vaultSalt, vaultData)]
        /\ UNCHANGED <<storeVars, authVars, gateVars, vaultVars, sessVars, rngVars,
                       histVars, faults>>

\* decryptData(encryptData(data, key, iv), key, iv)
CallRoundTrip(data, owner, s, i) ==
    LET key == deriveKey(owner, generateSalt(s)).val
        iv == generateIV(i)
    IN  /\ call' = [fn |-> "decryptData", data |-> data, owner |-> owner, salt |-> s,
                    iv |-> i, result |-> decryptData(encryptData(data, key, iv), key, iv)]
        /\ UNCHANGED <<storeVars, authVars, gateVars, vaultVars, sessVars, rngVars,
                       histVars, faults>>

\* decryptPasswordEntry(encryptPasswordEntry(entry, key), key)
CallEntryRoundTrip(fd, owner, s, i) ==
    LET key == deriveKey(owner, generateSalt(s)).val
        entry == PlainEntry(i, fd)
    IN  /\ call' = [fn |-> "decryptPasswordEntry", entry |-> entry, owner |-> owner,
                    salt |-> s, iv |-> i,
                    result |-> decryptPasswordEntry(
                                   encryptPasswordEntry(entry, key, generateIV(i)), key)]
        /\ UNCHANGED <<storeVars, authVars, gateVars, vaultVars, sessVars, rngVars,
                       histVars, faults>>

NextCrypto ==
    \/ \E owner \in {P1, P2}, tried \in TriedPassphrases, s \in 1..MaxSalts,
          n \in 0..MaxRecords, damage \in Damages :
           CallVerify(owner, tried, s, n, damage)
    \/ \E data \in Plaintexts, owner \in {P1, P2}, s \in 1..MaxSalts, i \in 1..MaxIV :
           CallRoundTrip(data, owner, s, i)
    \/ \E fd \in EntryData, owner \in {P1, P2}, s \in 1..MaxSalts, i \in 1..MaxIV :
           CallEntryRoundTrip(fd, owner, s, i)

SpecCrypto == Init /\ [][NextCrypto]_vars

(***************************************************************************)
(* Properties of the functions of utils/crypto.ts, under SpecCrypto.       *)
(***************************************************************************)
\* C4: on a vault of at least one record, all encrypted under the key derived
\* from the owner's passphrase and the stored salt, verifyMasterPassword returns
\* true for the owner's passphrase and false for every other passphrase.
C4_VerifyAcceptsOnlyOwner ==
    (call.fn = "verifyMasterPassword" /\ call.records >= 1 /\ call.damage = "none")
        => call.result = Return(call.tried = call.owner)

\* a vault of at least one record was tried with a passphrase that is not the
\* owner's, and the answer was false
C4_WrongPassphraseRejected ==
    /\ call.fn = "verifyMasterPassword"
    /\ call.records >= 1
    /\ call.damage = "none"
    /\ call.tried # call.owner
    /\ call.result = Return(FALSE)

\* C5: verifyMasterPassword never throws; it returns false when the salt does
\* not decode or the first record does not decrypt (its iv does not decode, its
\* ciphertext was altered, or the key is another one), and true otherwise, a
\* vault of zero records included.
C5_VerifyNeverThrows ==
    call.fn = "verifyMasterPassword" =>
        LET fails == \/ call.damage = "salt"
                     \/ /\ call.records >= 1
                        /\ \/ call.damage \in {"iv", "ciphertext"}
                           \/ call.tried # call.owner
        IN  /\ call.result.ok
            /\ call.result.val = ~fails

\* the stored salt of an empty vault did not decode, and the answer was false
C5_BadSaltAnswersFalse ==
    /\ call.fn = "verifyMasterPassword"
    /\ call.records = 0
    /\ call.damage = "salt"
    /\ call.result = Return(FALSE)

\* C7: decryptData(encryptData(P, K, iv), K, iv) = P for every plaintext P, and
\* decryptPasswordEntry(encryptPasswordEntry(e, K), K) has the password and the
\* notes of e (absent notes come back empty) and its id, title, username, url,
\* createdAt and updatedAt.
C7_RoundTrip ==
    /\ call.fn = "decryptData" => call.result = Return(call.data)
    /\ call.fn = "decryptPasswordEntry" =>
           /\ call.result.ok
           /\ call.result.val.password = call.entry.password
           /\ call.result.val.notes =
                  (IF call.entry.notes = Undefined THEN <<>> ELSE call.entry.notes)
           /\ \A f \in {"id", "title", "username", "url", "createdAt", "updatedAt"} :
                  call.result.val[f] = call.entry[f]

(***************************************************************************)
(* Properties of the vault, under SpecVault and SpecFaulty.                *)
(***************************************************************************)
\* the stored records that open under key: untouched and encrypted under it
Openable(key) ==
    {i \in 1..Len(lsData.items) :
        /\ lsData.items[i].password.intact
        /\ lsData.items[i].password.k = key}

\* C1: for every persisted vault, of any number of records, zero included, and
\* every passphrase other than the one the vault was created with,
\* handleUnlockVault leaves the session locked (no login, no key held) and the
\* store unchanged.
C1_WrongPassphraseStaysLocked ==
    [][\A pw \in UnlockInputs :
           (/\ creator.made
            /\ lsSalt = creator.salt
            /\ pw # creator.pw
            /\ handleUnlockVault(pw, "ok", "ok", "ok"))
               => (/\ ~isAuthenticated'
                   /\ encryptionKey'.isNull
                   /\ storeVars' = storeVars)]_vars

\* C2: no two ciphertexts of distinct plaintexts, of one record or of two, were
\* produced under the same key and the same nonce.
C2_NoNonceReuse ==
    \A a \in encLog, b \in encLog : (a.k = b.k /\ a.n = b.n) => a.m = b.m

\* C6: loadPasswords shows exactly the stored records that decrypt under the
\* session key, in stored order, skips the others, and ends the load without an
\* error.
C6_LoadSkipsUndecryptable ==
    [][loadPasswords("ok") =>
           LET good == Openable(encryptionKey)
           IN  /\ Len(passwords') = Cardinality(good)
               /\ \A i \in good :
                      LET j == Cardinality({h \in good : h <= i})
                      IN  passwords'[j].id = lsData.items[i].id
               /\ ~isLoading'
               /\ vaultError' # "Failed to load passwords"]_vars

\* a load has skipped a damaged first record and kept the second
C6_LoadedAroundDamage ==
    /\ page = "vault"
    /\ ~isLoading
    /\ Len(lsData.items) = 2
    /\ ~lsData.items[1].password.intact
    /\ Openable(encryptionKey) = {2}
    /\ Len(passwords) = 1
    /\ passwords[1].id = lsData.items[2].id

\* C8: once handleCreateVault(P) has persisted the salt and an empty list and
\* the application was restarted, handleUnlockVault(P) logs in with the key
\* that creation derived: same passphrase, same salt bytes after the base64
\* round trip.
C8_CreateThenUnlock ==
    [][(/\ creator.made
        /\ creator.restarted
        /\ lsSalt = creator.salt
        /\ lsData = [present |-> TRUE, items |-> <<>>]
        /\ handleUnlockVault(creator.pw, "ok", "ok", "ok"))
           => (/\ isAuthenticated'
               /\ encryptionKey' = creator.key
               /\ page' = "vault")]_vars

\* after creation and a restart the still empty vault is open under the key of
\* its creation
C8_UnlockedAfterRestart ==
    /\ creator.made
    /\ creator.restarted
    /\ lsData = [present |-> TRUE, items |-> <<>>]
    /\ page = "vault"
    /\ isAuthenticated
    /\ encryptionKey = creator.key

\* C9: in every reachable state, after a handleCreateVault whose store write
\* failed or raised too, the salt and the record list are both persisted or
\* neither is.
C9_BirthStateAtomic ==
    (lsSalt # Undefined) <=> lsData.present

\* C10: once handleCreateVault has succeeded, no later step changes the stored
\* salt: it stays the one generated at creation.
C10_SaltImmutable ==
    [][creator.made => (lsSalt = creator.salt /\ lsSalt' = lsSalt)]_vars

\* a vault that was created, reloaded, filled and locked again still holds the
\* salt of its creation
C10_SaltKeptAcrossSessions ==
    /\ creator.made
    /\ creator.restarted
    /\ Len(lsData.items) >= 1
    /\ page = "auth"
    /\ ~isNewVault
    /\ lsSalt = creator.salt

(***************************************************************************)
(* The utility functions called one at a time: a call starts from an idle  *)
(* caller and leaves its arguments and result in call.                     *)
(***************************************************************************)
\* everything a call of a crypto function leaves alone
utilFrame ==
    <<storeVars, authVars, gateVars, vaultVars, sessVars, rngVars, histVars, faults>>

\* the caller takes the result: it is idle again
Forget ==
    /\ call # NoCall
    /\ call' = NoCall
    /\ UNCHANGED utilFrame

\* what may be done to a stored record before it is read back
Tampers == {"none", "key", "password", "notes", "iv", "dropNotes", "swap"}

\* the record enc after the tampering
Tampered(enc, tamper, i) ==
    CASE tamper = "password" -> [enc EXCEPT !.password.intact = FALSE]
      [] tamper = "notes" /\ CtTruthy(enc.notes) -> [enc EXCEPT !.notes.intact = FALSE]
      [] tamper = "iv" -> [enc EXCEPT !.iv = arrayBufferToBase64(generateIV(i + 1))]
      [] tamper = "dropNotes" -> [enc EXCEPT !.notes = EmptyCt]
      [] tamper = "swap" /\ CtTruthy(enc.notes) ->
             [enc EXCEPT !.password = enc.notes, !.notes = enc.password]
      [] OTHER -> enc

\* decryptPasswordEntry on a record that encryptPasswordEntry produced under
\* owner's key and that was tampered with, or read with reader's key
CallTampered(fd, owner, reader, i, tamper) ==
    LET salt == generateSalt(1)
        enc == encryptPasswordEntry(PlainEntry(i, fd), deriveKey(owner, salt).val,
                                    generateIV(i))
        stored == Tampered(enc, tamper, i)
        key == deriveKey(reader, salt).val
    IN  /\ call = NoCall
        /\ (tamper = "key") = (reader # owner)
        /\ call' = [fn |-> "decryptTampered", tamper |-> tamper,
                    altered |-> (stored # enc \/ reader # owner),
                    result |-> decryptPasswordEntry(stored, key)]
        /\ UNCHANGED utilFrame

\* salts of the fixed length and of other lengths
SaltsOfAnyLength ==
    {generateSalt(1), SubSeq(generateSalt(1), 1, SALT_LENGTH - 1),
     generateSalt(1) \o <<0>>, <<>>}

\* deriveKey(masterPassword, salt)
CallDeriveKey(masterPassword, salt) ==
    /\ call = NoCall
    /\ call' = [fn |-> "deriveKey", masterPassword |-> masterPassword, salt |-> salt,
                result |-> deriveKey(masterPassword, salt)]
    /\ UNCHANGED utilFrame

(***************************************************************************)
(* utils/storage.ts on a medium that may be full or disabled.              *)
(***************************************************************************)
\* the medium at the time of a call: room for everything, room for the probe
\* item but not for the value, room for nothing, or access refused
Media == {"free", "tight", "full", "disabled"}

\* isLocalStorageAvailable(): the probe item is written and removed
isLocalStorageAvailable(medium) == medium \in {"free", "tight"}

\* the outcome of a setStorageItem call on the medium
WriteEnv(medium) ==
    IF ~isLocalStorageAvailable(medium) THEN "unavailable"
    ELSE IF medium = "tight" THEN "quota"
    ELSE "ok"

\* removeStorageItem: true when the key was removed
removeStorageItem(medium) == isLocalStorageAvailable(medium)

\* getSessionTimeout(): the stored number, or 0
getSessionTimeout(env) == IF env = "ok" THEN lsTimeout ELSE 0

\* everything a call of a storage function leaves alone, the store apart
storageFrame ==
    <<authVars, gateVars, vaultVars, sessVars, rngVars, histVars, faults>>

\* setVaultSalt(salt)
CallSetVaultSalt(n, medium) ==
    /\ call = NoCall
    /\ lsSalt' = IF WriteEnv(medium) = "ok" THEN arrayBufferToBase64(generateSalt(n))
                 ELSE lsSalt
    /\ call' = [fn |-> "setVaultSalt", medium |-> medium,
                result |-> setStorageItem(WriteEnv(medium))]
    /\ UNCHANGED <<lsData, lsTimeout, storageFrame>>

\* setVaultData(data)
CallSetVaultData(n, medium) ==
    /\ call = NoCall
    /\ lsData' = WrittenData(RecordsUnder(deriveKey(P1, generateSalt(1)).val, n),
                             WriteEnv(medium))
    /\ call' = [fn |-> "setVaultData", medium |-> medium,
                result |-> setStorageItem(WriteEnv(medium))]
    /\ UNCHANGED <<lsSalt, lsTimeout, storageFrame>>

\* setSessionTimeout(timeout)
CallSetSessionTimeout(timeout, medium) ==
    /\ call = NoCall
    /\ lsTimeout' = IF WriteEnv(medium) = "ok" THEN timeout ELSE lsTimeout
    /\ call' = [fn |-> "setSessionTimeout", medium |-> medium,
                result |-> setStorageItem(WriteEnv(medium))]
    /\ UNCHANGED <<lsSalt, lsData, storageFrame>>

\* clearVaultData with a return that stops at the first failed removal
clearVaultDataShortCircuit(m1, m2, m3) ==
    LET success1 == removeStorageItem(m1)
        success2 == success1 /\ removeStorageItem(m2)
        success3 == success2 /\ removeStorageItem(m3)
    IN  /\ call = NoCall
        /\ lsSalt' = IF success1 THEN Undefined ELSE lsSalt
        /\ lsData' = IF success2 THEN [present |-> FALSE, items |-> <<>>] ELSE lsData
        /\ lsTimeout' = IF success3 THEN 0 ELSE lsTimeout
        /\ call' = [fn |-> "clearVaultData", media |-> <<m1, m2, m3>>,
                    before |-> <<lsSalt, lsData, lsTimeout>>,
                    result |-> Return(success3)]
        /\ UNCHANGED storageFrame

\* clearVaultData(): the three removals, then the conjunction of their results
clearVaultData(m1, m2, m3) ==
    LET success1 == removeStorageItem(m1)
        success2 == removeStorageItem(m2)
        success3 == removeStorageItem(m3)
    IN  /\ call = NoCall
        /\ lsSalt' = IF success1 THEN Undefined ELSE lsSalt
        /\ lsData' = IF success2 THEN [present |-> FALSE, items |-> <<>>] ELSE lsData
        /\ lsTimeout' = IF success3 THEN 0 ELSE lsTimeout
        /\ call' = [fn |-> "clearVaultData", media |-> <<m1, m2, m3>>,
                    before |-> <<lsSalt, lsData, lsTimeout>>,
                    result |-> Return(success1 /\ success2 /\ success3)]
        /\ UNCHANGED storageFrame

(***************************************************************************)
(* utils/passwordGenerator.ts.  The random bytes and the values of         *)
(* Math.random() are inputs of the call.                                   *)
(***************************************************************************)
MIN_PASSWORD_GEN_LENGTH == 8
MAX_PASSWORD_GEN_LENGTH == 64

\* Math.random() takes the values r / RandomScale, r in 0..RandomScale-1
RandomScale == 8

\* the characters of a string
Chars(str) == {str[i] : i \in 1..Len(str)}

Lowercase == [i \in 1..26 |-> 96 + i]

Uppercase == [i \in 1..26 |-> 64 + i]

Numbers == [i \in 1..10 |-> 47 + i]

Symbols ==
    <<33, 64, 35, 36, 37, 94, 38, 42, 40, 41, 95, 43, 45, 61, 91, 93, 123, 125,
      124, 59, 58, 44, 46, 60, 62, 63>>

\* CHARACTER_SETS
CHARACTER_SETS ==
    [lowercase |-> Lowercase, uppercase |-> Uppercase, numbers |-> Numbers,
     symbols |-> Symbols]

\* AMBIGUOUS_CHARS = '0O1lI|'
AMBIGUOUS_CHARS == <<48, 79, 49, 108, 73, 124>>

\* Array.prototype.filter(char => !AMBIGUOUS_CHARS.includes(char))
RECURSIVE WithoutAmbiguous(_)
WithoutAmbiguous(str) ==
    IF str = <<>> THEN <<>>
    ELSE (IF Head(str) \in Chars(AMBIGUOUS_CHARS) THEN <<>> ELSE <<Head(str)>>)
         \o WithoutAmbiguous(Tail(str))

\* the character set generatePassword builds from the configuration
BuildCharSet(config) ==
    LET all == (IF config.includeLowercase THEN CHARACTER_SETS.lowercase ELSE <<>>)
               \o (IF config.includeUppercase THEN CHARACTER_SETS.uppercase ELSE <<>>)
               \o (IF config.includeNumbers THEN CHARACTER_SETS.numbers ELSE <<>>)
               \o (IF config.includeSymbols THEN CHARACTER_SETS.symbols ELSE <<>>)
    IN  IF config.excludeAmbiguous THEN WithoutAmbiguous(all) ELSE all

\* generateRandomString: charSet[randomBytes[i] % charSet.length]
generateRandomString(length, charSet, randomBytes) ==
    [i \in 1..length |-> charSet[(randomBytes[i] % Len(charSet)) + 1]]

\* hasCharacterType(password, charSet)
hasCharacterType(password, charSet) ==
    \E c \in Chars(charSet) : c \in Chars(password)

\* Math.floor(Math.random() * n), for Math.random() = r / RandomScale
MathFloorRandom(r, n) == (r * n) \div RandomScale

\* the positions whose character is not of the target set, in order
RECURSIVE ReplaceablePositions(_, _, _)
ReplaceablePositions(passwordArray, targetCharSet, i) ==
    IF i > Len(passwordArray) THEN <<>>
    ELSE (IF passwordArray[i] \in Chars(targetCharSet) THEN <<>> ELSE <<i>>)
         \o ReplaceablePositions(passwordArray, targetCharSet, i + 1)

\* replaceRandomCharacter: the array after the replacement
replaceRandomCharacter(passwordArray, targetCharSet, draw) ==
    LET replaceablePositions == ReplaceablePositions(passwordArray, targetCharSet, 1)
        n == Len(replaceablePositions)
        position == IF n > 0
                    THEN replaceablePositions[MathFloorRandom(draw.r, n) + 1]
                    ELSE MathFloorRandom(draw.r, Len(passwordArray)) + 1
    IN  [passwordArray EXCEPT
            ![position] = targetCharSet[(draw.byte % Len(targetCharSet)) + 1]]

\* one "check and fix" of ensureCharacterTypes: the check reads the password as
\* generated, the fix writes the array
CheckAndFix(passwordArray, password, included, targetCharSet, draw) ==
    IF included /\ ~hasCharacterType(password, targetCharSet)
    THEN replaceRandomCharacter(passwordArray, targetCharSet, draw)
    ELSE passwordArray

\* ensureCharacterTypes(password, config, charSet)
ensureCharacterTypes(password, config, draws) ==
    LET a1 == CheckAndFix(password, password, config.includeLowercase,
                          CHARACTER_SETS.lowercase, draws[1])
        a2 == CheckAndFix(a1, password, config.includeUppercase,
                          CHARACTER_SETS.uppercase, draws[2])
        a3 == CheckAndFix(a2, password, config.includeNumbers,
                          CHARACTER_SETS.numbers, draws[3])
    IN  CheckAndFix(a3, password, config.includeSymbols,
                    CHARACTER_SETS.symbols, draws[4])

\* generatePassword(config)
generatePassword(config, randomBytes, draws) ==
    LET charSet == BuildCharSet(config)
    IN  IF config.length < MIN_PASSWORD_GEN_LENGTH
           \/ config.length > MAX_PASSWORD_GEN_LENGTH
        THEN Throw
        ELSE IF ~config.includeLowercase /\ ~config.includeUppercase
                /\ ~config.includeNumbers /\ ~config.includeSymbols
        THEN Throw
        ELSE IF Len(charSet) = 0 THEN Throw
        ELSE Return(ensureCharacterTypes(
                        generateRandomString(config.length, charSet, randomBytes),
                        config, draws))

\* configurations: every type, two types, one type, with and without the
\* ambiguous characters, no type at all, and a length below the minimum
GenConfig(length, l, u, n, y, x) ==
    [length |-> length, includeLowercase |-> l, includeUppercase |-> u,
     includeNumbers |-> n, includeSymbols |-> y, excludeAmbiguous |-> x]

GenConfigs ==
    {GenConfig(MIN_PASSWORD_GEN_LENGTH, TRUE, TRUE, TRUE, TRUE, FALSE),
     GenConfig(MIN_PASSWORD_GEN_LENGTH, TRUE, TRUE, TRUE, TRUE, TRUE),
     GenConfig(MIN_PASSWORD_GEN_LENGTH, TRUE, TRUE, FALSE, FALSE, FALSE),
     GenConfig(MIN_PASSWORD_GEN_LENGTH, FALSE, FALSE, TRUE, FALSE, FALSE),
     GenConfig(MIN_PASSWORD_GEN_LENGTH, FALSE, FALSE, FALSE, FALSE, FALSE),
     GenConfig(MIN_PASSWORD_GEN_LENGTH - 1, TRUE, TRUE, TRUE, TRUE, FALSE)}

\* outcomes of crypto.getRandomValues for the string: one byte repeated, or mixed
GenRandomBytes ==
    {[i \in 1..MIN_PASSWORD_GEN_LENGTH |-> b] : b \in {0, 52, 255}}
        \cup {[i \in 1..MIN_PASSWORD_GEN_LENGTH |-> (i * 37) % 256]}

\* outcomes of Math.random() and of the random byte of one replacement
GenDraws ==
    {[r |-> 0, byte |-> 0], [r |-> RandomScale - 1, byte |-> 0], [r |-> 0, byte |-> 255]}

CallGeneratePassword(config, randomBytes, draws) ==
    /\ call = NoCall
    /\ call' = [fn |-> "generatePassword", config |-> config,
                result |-> generatePassword(config, randomBytes, draws)]
    /\ UNCHANGED utilFrame

\* the ways the records behind the first may differ from it
Tails == {"alike", "ciphertext", "iv", "otherKey"}

\* n records under the owner's key, the first one damaged or not, the later
\* ones as tail says
RecordsWithTail(owner, n, damage, tail) ==
    LET salt == generateSalt(1)
        key == deriveKey(owner, salt).val
        other == deriveKey(P2, generateSalt(2)).val
        records == DamagedRecords(RecordsUnder(key, n), damage)
    IN  [i \in 1..n |->
            IF i = 1 \/ tail = "alike" THEN records[i]
            ELSE IF tail = "ciphertext" THEN [records[i] EXCEPT !.password.intact = FALSE]
            ELSE IF tail = "iv" THEN [records[i] EXCEPT !.iv = <<BadChar>> \o @]
            ELSE RecordsUnder(other, n)[i]]

\* verifyMasterPassword(tried, salt, vaultData), and the same call with
\* vaultData cut down to its first record
CallVerifyTail(tried, n, damage, tail) ==
    LET vaultSalt == arrayBufferToBase64(generateSalt(1))
        vaultData == RecordsWithTail(P1, n, damage, tail)
    IN  /\ call = NoCall
        /\ call' = [fn |-> "verifyMasterPasswordTail", tried |-> tried, records |-> n,
                    damage |-> damage, tail |-> tail,
                    result |-> verifyMasterPassword(tried, vaultSalt, vaultData),
                    first |-> verifyMasterPassword(tried, vaultSalt,
                                                   SubSeq(vaultData, 1, 1))]
        /\ UNCHANGED utilFrame

NextUtil ==
    \/ Forget
    \/ \E tried \in {P1, P2}, n \in 1..MaxRecords, damage \in {"none", "ciphertext"},
          tail \in Tails :
           CallVerifyTail(tried, n, damage, tail)
    \/ \E fd \in EntryData, owner \in {P1, P2}, reader \in {P1, P2}, i \in 1..MaxIV,
          tamper \in Tampers :
           CallTampered(fd, owner, reader, i, tamper)
    \/ \E pw \in {P1, P2}, salt \in SaltsOfAnyLength : CallDeriveKey(pw, salt)
    \/ \E n \in 1..MaxSalts, medium \in Media : CallSetVaultSalt(n, medium)
    \/ \E n \in 0..MaxRecords, medium \in Media : CallSetVaultData(n, medium)
    \/ \E t \in {0, SESSION_DURATION}, medium \in Media : CallSetSessionTimeout(t, medium)
    \/ \E m1 \in Media, m2 \in Media, m3 \in Media : clearVaultData(m1, m2, m3)
    \/ \E config \in GenConfigs, randomBytes \in GenRandomBytes,
          draws \in [1..4 -> GenDraws] :
           CallGeneratePassword(config, randomBytes, draws)

SpecUtil == Init /\ [][NextUtil]_vars

(***************************************************************************)
(* Properties of the utility functions, under SpecUtil.                    *)
(***************************************************************************)
\* C11: decryptPasswordEntry fails whenever the key is not the encrypting key or
\* the stored password ciphertext, notes ciphertext or IV is not what
\* encryptPasswordEntry produced for the record; no plaintext comes back for an
\* altered record.
C11_TamperingDetected ==
    (call.fn = "decryptTampered" /\ call.altered) => ~call.result.ok

\* C14: whenever the write cannot be done because the medium is full,
\* setVaultSalt and setVaultData (setStorageItem) fail with the quota error
\* instead of returning a value.
C14_FullMediumRaisesQuota ==
    (call.fn \in {"setVaultSalt", "setVaultData"} /\ call.medium \in {"tight", "full"})
        => call.result = Throw

\* C16: deriveKey rejects a salt whose length is not SALT_LENGTH and derives no
\* key.
C16_SaltLengthChecked ==
    (call.fn = "deriveKey" /\ Len(call.salt) # SALT_LENGTH) => ~call.result.ok

\* C18: clearVaultData attempts the three removals even when one of them fails
\* and returns true only if all three succeeded; after a call that returned true
\* getVaultSalt() is null, getVaultData() is empty, getSessionTimeout() is 0 and
\* vaultExists() is false.
C18_ClearErasesEverything ==
    call.fn = "clearVaultData" =>
        LET removable(k) == call.media[k] \in {"free", "tight"}
        IN  /\ call.result = Return(\A k \in 1..3 : removable(k))
            /\ lsSalt = IF removable(1) THEN Undefined ELSE call.before[1]
            /\ lsData.present = (~removable(2) /\ call.before[2].present)
            /\ lsTimeout = IF removable(3) THEN 0 ELSE call.before[3]
            /\ call.result.val =>
                   /\ getVaultSalt("ok") = Undefined
                   /\ getVaultData("ok") = <<>>
                   /\ getSessionTimeout("ok") = 0
                   /\ ~vaultExists("ok")

\* the removal of the salt failed and the record list was removed all the same
C18_LaterRemovalsStillDone ==
    /\ call.fn = "clearVaultData"
    /\ call.media[1] = "full"
    /\ call.before[1] # Undefined
    /\ call.before[2].present
    /\ lsSalt = call.before[1]
    /\ ~lsData.present
    /\ call.result = Return(FALSE)

\* C20: generatePassword returns a password with at least one character of
\* each selected type, for every valid configuration and every outcome of the
\* random choices.
C20_EveryTypePresent ==
    (call.fn = "generatePassword" /\ call.result.ok) =>
        /\ call.config.includeLowercase =>
               \E c \in Chars(call.result.val) : IsLower(c)
        /\ call.config.includeUppercase =>
               \E c \in Chars(call.result.val) : IsUpper(c)
        /\ call.config.includeNumbers =>
               \E c \in Chars(call.result.val) : IsDigit(c)
        /\ call.config.includeSymbols =>
               \E c \in Chars(call.result.val) : c \in SpecialChars

(***************************************************************************)
(* Claims about the handlers under a store whose calls may fail.           *)
(***************************************************************************)
\* C13: a write to the vault store that fails during create, add, update or
\* delete is reported (the handler shows its error) and the operation is not
\* treated as done: no login after a failed creation write, the shown list is
\* left as it was after a failed add, update or delete write.
C13_FailedWritesReported ==
    [][/\ \A in \in CreateInputs, e1 \in WriteEnvs, e2 \in WriteEnvs, envT \in ReadEnvs :
              (/\ handleCreateVault(in[1], in[2], e1, e2, envT)
               /\ validateMasterPassword(in[1])
               /\ in[1] = in[2]
               /\ (e1 # "ok" \/ e2 # "ok"))
              => (errors' # "none" /\ ~isAuthenticated')
       /\ \A p \in pending, envR \in ReadEnvs, envW \in WriteEnvs :
              (handleAddPasswordFinish(p, envR, envW) /\ ~p.stale /\ envW # "ok")
              => (vaultError' = "Failed to add password" /\ passwords' = passwords)
       /\ \A p \in pending, envR \in ReadEnvs, envW \in WriteEnvs :
              (/\ handleEditPasswordFinish(p, envR, envW)
               /\ ~p.stale
               /\ FindIndex(getVaultData(envR), p.plain.id) # 0
               /\ envW # "ok")
              => (vaultError' = "Failed to update password" /\ passwords' = passwords)
       /\ \A id \in 1..MaxRecords, envR \in ReadEnvs, envW \in WriteEnvs :
              (/\ handleDeletePassword(id, envR, envW)
               /\ FindIndex(getVaultData(envR), id) # 0
               /\ envW # "ok")
              => (vaultError' = "Failed to delete password" /\ passwords' = passwords)
      ]_vars

\* C15: an update whose record id is not in the store changes neither the
\* store nor the shown list, and the failure is shown.
C15_UpdateOfMissingIdFails ==
    [][\A p \in pending, envR \in ReadEnvs, envW \in WriteEnvs :
           (/\ handleEditPasswordFinish(p, envR, envW)
            /\ ~p.stale
            /\ FindIndex(getVaultData(envR), p.plain.id) = 0)
           => (/\ lsData' = lsData
               /\ passwords' = passwords
               /\ vaultError' = "Failed to update password")]_vars

\* C17: the store holds nothing but the base64 of a generated salt, a session
\* deadline (a number) and records whose password is a ciphertext and whose
\* notes are a ciphertext or '': never the passphrase, the key, or the text
\* of a password or of notes, whatever store calls have failed.
C17_OnlyCiphertextStored ==
    /\ lsSalt = Undefined
       \/ \E n \in 1..saltCounter : lsSalt = arrayBufferToBase64(generateSalt(n))
    /\ lsTimeout \in Nat
    /\ \A i \in 1..Len(lsData.items) :
           LET e == lsData.items[i]
           IN  /\ e.password \in encLog
               /\ e.password.kind = "ct"
               /\ e.notes = EmptyCt \/ (e.notes \in encLog /\ e.notes.kind = "ct")
               /\ DOMAIN e = {"id", "title", "username", "url", "password", "notes",
                              "createdAt", "updatedAt", "iv"}

\* records (one with notes) are stored although a store call has failed
C17_StoredDespiteFault ==
    /\ faults >= 1
    /\ \E i \in 1..Len(lsData.items) : CtTruthy(lsData.items[i].notes)

(***************************************************************************)
(* Claims about the handlers under a store that works.                     *)
(***************************************************************************)
\* C19: every stored record carries the IV both of its ciphertexts were
\* produced with, no two stored records carry the same IV, and an update
\* leaves the record with another IV than its previous version had.
C19_RecordCarriesItsIv ==
    /\ [](/\ \A i \in 1..Len(lsData.items) :
                 LET e == lsData.items[i]
                 IN  /\ e.iv = arrayBufferToBase64(e.password.n)
                     /\ CtTruthy(e.notes) => e.notes.n = e.password.n
          /\ \A i \in 1..Len(lsData.items), j \in 1..Len(lsData.items) :
                 lsData.items[i].iv = lsData.items[j].iv => i = j)
    /\ [][\A p \in pending :
              LET index == FindIndex(lsData.items, p.plain.id)
              IN  (handleEditPasswordFinish(p, "ok", "ok") /\ index # 0)
                  => lsData'.items[index].iv # lsData.items[index].iv]_vars

\* the first record added is stored in a version produced by an update
C19_RecordStoredAfterUpdate ==
    \E i \in 1..Len(lsData.items) :
        /\ lsData.items[i].id = 1
        /\ lsData.items[i].iv = arrayBufferToBase64(generateIV(2))

(***************************************************************************)
(* The vault page across a lock: the handlers of the page, the auto-lock   *)
(* timer and the guard of the /vault route.                                *)
(***************************************************************************)
\* the guard of the /vault route: without a session it leaves VaultPage for "/"
ProtectedRoute ==
    /\ page = "vault"
    /\ ~isAuthenticated
    /\ UnmountVaultPage
    /\ MountAuthGate("ok")
    /\ UNCHANGED <<storeVars, authVars, sessVars, rngVars, histVars, faults, call>>

NextLock ==
    \/ handleCreateVault(P1, P1, "ok", "ok", "ok")
    \/ \E pw \in UnlockInputs : handleUnlockVault(pw, "ok", "ok", "ok")
    \/ loadPasswords("ok")
    \/ \E fd \in FormData : handleAddPasswordStart(fd)
    \/ \E p \in pending : handleAddPasswordFinish(p, "ok", "ok")
    \/ \E i \in 1..MaxRecords, fd \in FormData : handleEditPasswordStart(i, fd)
    \/ \E p \in pending : handleEditPasswordFinish(p, "ok", "ok")
    \/ \E id \in 1..MaxRecords : handleDeletePassword(id, "ok", "ok")
    \/ handleLogout("ok", "ok")
    \/ autoLock
    \/ ProtectedRoute
    \/ Tick

SpecLock == Init /\ [][NextLock]_vars

\* C12: a lock (handleLogout or the auto-lock timer) leaves encryptionKey null,
\* and while the session is locked no add, update or delete that is invoked
\* changes the vault store.
C12_LockedOperationsFail ==
    [][/\ (handleLogout("ok", "ok") \/ autoLock) => encryptionKey'.isNull
       /\ (/\ ~isAuthenticated
           /\ encryptionKey.isNull
           /\ \/ \E fd \in FormData : handleAddPasswordStart(fd)
              \/ \E i \in 1..MaxRecords, fd \in FormData : handleEditPasswordStart(i, fd)
              \/ \E id \in 1..MaxRecords : handleDeletePassword(id, "ok", "ok"))
          => (lsData' = lsData /\ lsSalt' = lsSalt)]_vars

(***************************************************************************)
(* The writers of the store alone: one passphrase, every store call may    *)
(* fail.                                                                   *)
(***************************************************************************)
NextStore ==
    \/ \E in \in {<<P1, P1>>, <<P1, P2>>}, e1 \in WriteEnvs, e2 \in WriteEnvs,
          envT \in ReadEnvs :
           handleCreateVault(in[1], in[2], e1, e2, envT)
    \/ \E envS \in ReadEnvs, envD \in ReadEnvs, envT \in ReadEnvs :
           handleUnlockVault(P1, envS, envD, envT)
    \/ \E envR \in ReadEnvs : loadPasswords(envR)
    \/ \E fd \in FormData : handleAddPasswordStart(fd)
    \/ \E p \in pending, envR \in ReadEnvs, envW \in WriteEnvs :
           handleAddPasswordFinish(p, envR, envW)
    \/ \E i \in 1..MaxRecords, fd \in FormData : handleEditPasswordStart(i, fd)
    \/ \E p \in pending, envR \in ReadEnvs, envW \in WriteEnvs :
           handleEditPasswordFinish(p, envR, envW)
    \/ \E id \in 1..MaxRecords, envR \in ReadEnvs, envW \in WriteEnvs :
           handleDeletePassword(id, envR, envW)
    \/ \E envS \in ReadEnvs, envT \in ReadEnvs : handleLogout(envS, envT)
    \/ \E envS \in ReadEnvs, envT \in ReadEnvs : Restart(envS, envT)

SpecStore == Init /\ [][NextStore]_vars

(***************************************************************************)
(* Further properties of the password generator, under SpecUtil.           *)
(***************************************************************************)
\* C21: with excludeAmbiguous set, the password generatePassword returns
\* contains none of the characters 0 O 1 l I |.
C21_NoAmbiguousCharacter ==
    (call.fn = "generatePassword" /\ call.config.excludeAmbiguous /\ call.result.ok)
        => Chars(call.result.val) \cap Chars(AMBIGUOUS_CHARS) = {}

(***************************************************************************)
(* Further properties of the session timers.                               *)
(***************************************************************************)
\* C22: in a session without activity events the auto-lock fires exactly at the
\* deadline that is stored and shown, so that a call of extendSession, which
\* moves the deadline to SESSION_DURATION after the call, postpones the lock
\* to that time.
C22_ExtendPostponesLock ==
    [][(autoLock /\ activities = 0)
           => (now = sessionTimeoutState /\ now = lsTimeout)]_vars

\* C23: an activity event is followed within ACTIVITY_RESET_THROTTLE by a
\* rewrite of the deadline (to SESSION_DURATION after the rewrite, hence at
\* least SESSION_DURATION after the event), also when further events arrive
\* less than the throttle apart; and two rewrites by resetSession are at
\* least ACTIVITY_RESET_THROTTLE apart.
C23_ActivityResetsDeadline ==
    /\ [](unserved # -1 => now - unserved <= ACTIVITY_RESET_THROTTLE)
    /\ [][(resetSession /\ lsTimeout' # lsTimeout)
              => (/\ now - lastActivity >= ACTIVITY_RESET_THROTTLE
                  /\ lsTimeout' = now + SESSION_DURATION
                  /\ sessionTimeoutState' = lsTimeout')]_vars

C25_OnlyFirstRecordTried ==
    call.fn = "verifyMasterPasswordTail" => call.result = call.first

\* the passphrase is accepted although a record behind the first cannot be
\* decrypted with it
C25_AcceptedDespiteBadTail ==
    /\ call.fn = "verifyMasterPasswordTail"
    /\ call.records >= 2
    /\ call.tail # "alike"
    /\ call.result = Return(TRUE)

\* C26: when the master password fails validateMasterPassword or differs from
\* its confirmation, handleCreateVault stores neither salt nor records, does
\* not log in, stays on the form and shows the errors.
C26_RejectedCreationChangesNothing ==
    [][\A in \in {<<PWeak, PWeak>>, <<P1, P2>>} :
           handleCreateVault(in[1], in[2], "ok", "ok", "ok")
           => (/\ lsSalt' = lsSalt
               /\ lsData' = lsData
               /\ lsTimeout' = lsTimeout
               /\ ~isAuthenticated'
               /\ encryptionKey'.isNull
               /\ page' = "auth"
               /\ errors' = IF in[1] = PWeak THEN "validation" ELSE "mismatch")]_vars

\* a creation was rejected, nothing is stored and no session is open
C26_CreationRejected ==
    /\ errors \in {"validation", "mismatch"}
    /\ isNewVault
    /\ lsSalt = Undefined
    /\ ~lsData.present
    /\ ~isAuthenticated

\* C27: all records in the store are encrypted under one key, the key derived
\* from the passphrase the vault was created with and the stored salt.
C27_OneKeyForAllRecords ==
    (creator.made /\ lsSalt = creator.salt) =>
        \A i \in 1..Len(lsData.items) :
            \A c \in Ciphertexts(lsData.items[i]) :
                c.k = deriveKey(creator.pw, saltFromBase64(lsSalt)).val

C29_AuthenticatedIffKeyHeld ==
    /\ isAuthenticated <=> ~encryptionKey.isNull
    /\ (page = "auth" /\ lsTimeout > now) => (~isAuthenticated /\ encryptionKey.isNull)

\* the application was reloaded, the store still holds an unexpired deadline,
\* and the session is not authenticated
C29_ReloadedWithLiveDeadline ==
    /\ creator.restarted
    /\ page = "auth"
    /\ lsTimeout > now
    /\ ~isAuthenticated

=============================================================================
